---- MODULE Spec2Model ----
(***************************************************************************)
(* Model of the WireGuard relay API: the device registry (device_store.py) *)
(* with its embedded address pool, the interface synchronizer              *)
(* (wireguard_manager.py) and the request handlers (device_routes.py).     *)
(*                                                                         *)
(* Every DeviceStore method opens devices.json, takes flock on it, loads,  *)
(* mutates, saves and closes, so each method is one atomic action.  The    *)
(* same holds for WireGuardManager._modify_conf and wg0.conf.  The `wg`    *)
(* command is an external call whose exit status is chosen freely, and so  *)
(* is whether wg0.conf can be opened; a failed open leaves the text as it  *)
(* was.  The handlers run in a thread pool, one worker per request, so the *)
(* steps of different requests interleave freely.                          *)
(***************************************************************************)
EXTENDS Integers, Sequences, FiniteSets, TLC

(***************************************************************************)
(* Bounds and inputs                                                       *)
(***************************************************************************)
\* ip_state.max_ip of the registry file (254 in a freshly created file).
MaxIp == 3
\* Number of requests the handlers accept in one behaviour.
MaxRequests == 4

\* ip_state.next_ip of a freshly created file.
FIRST_IP == 2

\* The fallback prefix of ip_state.get("network", ...) and device.get("network", ...).
DEFAULT_NETWORK == "10.10.0"

\* ip_state.network of the registry file the process finds at start-up.
Networks == {"10.10.0", "10.20.0"}

\* Inputs of direct DeviceStore calls.
Serials == {"A", "B", "C"}
Keys == {"K1", "K2", "K3"}

\* Inputs of the HTTP handlers, and the workers that serve them.
ReqSerials == {"A", "B"}
ReqKeys == {"K1", "K2"}
Procs == {"w1", "w2"}

NoDevice == [serial |-> "", public_key |-> "", ip_last_octet |-> 0, network |-> ""]

NoResp == [status |-> 0, detail |-> "", assigned_ip |-> "", listing |-> <<>>]
NoReq == [op |-> "none", serial |-> "", public_key |-> ""]

VARIABLES
  data,      \* content of devices.json: [ip_state, devices]
  live,      \* peers of the running interface wg0: public key -> allowed-ips
  conf,      \* text of /etc/wireguard/wg0.conf, as tokens with "\n" separators
  pc,        \* per worker: where its handler stands
  req,       \* per worker: the request being served (or the last one served)
  device,    \* per worker: the handler's local `device`
  err,       \* per worker: the exception add_peer raised (wg_error)
  resp,      \* per worker: the response of the last finished request
  nreq,      \* requests accepted so far
  fault,     \* whether any wg command or wg0.conf access has failed so far
  last,      \* the most recent direct DeviceStore call and what it returned or raised
  prev,      \* the DeviceStore call before that
  reg_lock,  \* flock on devices.json: [ex |-> holder or "", sh |-> set of holders]
  conf_lock, \* flock on wg0.conf: holder or ""
  file_exists, \* whether devices.json exists
  boot       \* per process: where DeviceStore.__init__ stands

regvars == <<data, last, prev>>
apivars == <<live, conf, pc, req, device, err, resp, nreq, fault>>
auxvars == <<reg_lock, conf_lock, file_exists, boot>>
vars == <<data, live, conf, pc, req, device, err, resp, nreq, fault, last, prev,
          reg_lock, conf_lock, file_exists, boot>>

(***************************************************************************)
(* device_store.py                                                         *)
(***************************************************************************)
\* DeviceStore._ensure_file_exists: the initial content of devices.json.
initial_state(max_ip, network) ==
  [ip_state |-> [free_ips |-> <<>>, next_ip |-> FIRST_IP,
                 max_ip |-> max_ip, network |-> network],
   devices |-> <<>>]

\* list.sort() on a list of integers (insertion of the appended last element
\* is not enough in general: sort() orders the whole list).
RECURSIVE sort(_)
sort(s) ==
  IF s = <<>> THEN <<>>
  ELSE LET m == CHOOSE x \in {s[i] : i \in 1..Len(s)} :
                  \A j \in 1..Len(s) : x <= s[j]
           k == CHOOSE i \in 1..Len(s) : s[i] = m
       IN <<m>> \o sort(SubSeq(s, 1, k - 1) \o SubSeq(s, k + 1, Len(s)))

\* A mutant of allocate: pops the last free suffix instead of the first.
allocate_pop_last(ip_state) ==
  IF ip_state.free_ips # <<>>
  THEN [ok |-> TRUE,
        last_octet |-> ip_state.free_ips[Len(ip_state.free_ips)],
        ip_state |-> [ip_state EXCEPT
                        !.free_ips = SubSeq(@, 1, Len(@) - 1)]]
  ELSE IF ip_state.next_ip <= ip_state.max_ip
  THEN [ok |-> TRUE, last_octet |-> ip_state.next_ip,
        ip_state |-> [ip_state EXCEPT !.next_ip = @ + 1]]
  ELSE [ok |-> FALSE, last_octet |-> 0, ip_state |-> ip_state]

\* A mutant of allocate: tests the cursor with < instead of <=.
allocate_off_by_one(ip_state) ==
  IF ip_state.free_ips # <<>>
  THEN [ok |-> TRUE, last_octet |-> Head(ip_state.free_ips),
        ip_state |-> [ip_state EXCEPT !.free_ips = Tail(@)]]
  ELSE IF ip_state.next_ip < ip_state.max_ip
  THEN [ok |-> TRUE, last_octet |-> ip_state.next_ip,
        ip_state |-> [ip_state EXCEPT !.next_ip = @ + 1]]
  ELSE [ok |-> FALSE, last_octet |-> 0, ip_state |-> ip_state]

\* The allocation branch of register_device: free_ips.pop(0), else next_ip
\* and increment, else RuntimeError.
allocate(ip_state) ==
  IF ip_state.free_ips # <<>>
  THEN [ok |-> TRUE, last_octet |-> Head(ip_state.free_ips),
        ip_state |-> [ip_state EXCEPT !.free_ips = Tail(@)]]
  ELSE IF ip_state.next_ip <= ip_state.max_ip
  THEN [ok |-> TRUE, last_octet |-> ip_state.next_ip,
        ip_state |-> [ip_state EXCEPT !.next_ip = @ + 1]]
  ELSE [ok |-> FALSE, last_octet |-> 0, ip_state |-> ip_state]

\* A mutant of release: appends without sorting.
release_unsorted(ip_state, last_octet) ==
  [ip_state EXCEPT !.free_ips = Append(@, last_octet)]

\* The release branch of remove_device: free_ips.append(last_octet); sort().
release(ip_state, last_octet) ==
  [ip_state EXCEPT !.free_ips = sort(Append(@, last_octet))]

\* d with key k mapped to v (dict item assignment).
dict_set(d, k, v) ==
  [x \in (DOMAIN d) \cup {k} |-> IF x = k THEN v ELSE d[x]]

\* d without key k (dict.pop).
dict_pop(d, k) ==
  [x \in (DOMAIN d) \ {k} |-> d[x]]

\* A mutant of key_registered: the duplicate-key test never fires.
key_registered_never(devices, public_key) ==
  FALSE

\* any(d["public_key"] == public_key for d in data["devices"].values())
key_registered(devices, public_key) ==
  \E s \in DOMAIN devices : devices[s].public_key = public_key

\* A mutant of register_device: writes the record before the duplicate-key test.
register_device_early_write(d, serial, public_key) ==
  IF serial \in DOMAIN d.devices
  THEN [raised |-> "ValueError", detail |-> "Device already registered",
        data |-> d, device |-> NoDevice]
  ELSE IF key_registered(d.devices, public_key)
  THEN [raised |-> "ValueError", detail |-> "Public key already registered",
        data |-> [d EXCEPT !.devices = dict_set(@, serial,
                     [public_key |-> public_key, ip_last_octet |-> 0])],
        device |-> NoDevice]
  ELSE LET a == allocate(d.ip_state) IN
    IF ~a.ok
    THEN [raised |-> "RuntimeError", detail |-> "No available IP addresses",
          data |-> d, device |-> NoDevice]
    ELSE [raised |-> "none", detail |-> "",
          data |-> [ip_state |-> a.ip_state,
                    devices |-> dict_set(d.devices, serial,
                       [public_key |-> public_key,
                        ip_last_octet |-> a.last_octet])],
          device |-> [serial |-> serial, public_key |-> public_key,
                      ip_last_octet |-> a.last_octet,
                      network |-> a.ip_state.network]]

\* DeviceStore.register_device: the file after the call, what was raised and
\* the device dict returned (with "network" added after the save).
register_device(d, serial, public_key) ==
  IF serial \in DOMAIN d.devices
  THEN [raised |-> "ValueError", detail |-> "Device already registered",
        data |-> d, device |-> NoDevice]
  ELSE IF key_registered(d.devices, public_key)
  THEN [raised |-> "ValueError", detail |-> "Public key already registered",
        data |-> d, device |-> NoDevice]
  ELSE LET a == allocate(d.ip_state) IN
    IF ~a.ok
    THEN [raised |-> "RuntimeError", detail |-> "No available IP addresses",
          data |-> d, device |-> NoDevice]
    ELSE [raised |-> "none", detail |-> "",
          data |-> [ip_state |-> a.ip_state,
                    devices |-> dict_set(d.devices, serial,
                       [public_key |-> public_key,
                        ip_last_octet |-> a.last_octet])],
          device |-> [serial |-> serial, public_key |-> public_key,
                      ip_last_octet |-> a.last_octet,
                      network |-> a.ip_state.network]]

\* DeviceStore.remove_device: the file after the call and what was raised.
remove_device(d, serial) ==
  IF serial \notin DOMAIN d.devices
  THEN [raised |-> "ValueError", detail |-> "Device not found", data |-> d]
  ELSE [raised |-> "none", detail |-> "",
        data |-> [ip_state |-> release(d.ip_state,
                                       d.devices[serial].ip_last_octet),
                  devices |-> dict_pop(d.devices, serial)]]

\* DeviceStore.get_device: the stored record (it has no "network" key).
get_device(d, serial) ==
  IF serial \notin DOMAIN d.devices
  THEN [raised |-> "ValueError", detail |-> "Device not found",
        device |-> NoDevice]
  ELSE [raised |-> "none", detail |-> "",
        device |-> [serial |-> serial,
                    public_key |-> d.devices[serial].public_key,
                    ip_last_octet |-> d.devices[serial].ip_last_octet]]

\* DeviceStore.list_devices: the stored device map.
list_devices(d) == d.devices

(***************************************************************************)
(* Direct calls of the registry, one call per step                         *)
(***************************************************************************)
NoCall == [op |-> "none", serial |-> "", public_key |-> "",
           raised |-> "none", device |-> NoDevice,
           before |-> initial_state(0, "")]

\* flock state of devices.json with nobody holding it.
NoLock == [ex |-> "", sh |-> {}]

InitialConf == <<"[Interface]", "\n", "ListenPort = 51820", "\n">>

Init ==
  /\ data \in {initial_state(MaxIp, n) : n \in Networks}
  /\ live = <<>>
  /\ conf = InitialConf
  /\ pc = [p \in Procs |-> "idle"]
  /\ req = [p \in Procs |-> NoReq]
  /\ device = [p \in Procs |-> NoDevice]
  /\ err = [p \in Procs |-> ""]
  /\ resp = [p \in Procs |-> NoResp]
  /\ nreq = 0
  /\ fault = FALSE
  /\ last = NoCall
  /\ prev = NoCall
  /\ reg_lock = NoLock
  /\ conf_lock = ""
  /\ file_exists = TRUE
  /\ boot = [p \in Procs |-> "ready"]

InitRegistry == Init

StoreRegister(serial, public_key) ==
  LET r == register_device(data, serial, public_key) IN
  /\ data' = r.data
  /\ prev' = last
  /\ last' = [op |-> "register", serial |-> serial, public_key |-> public_key,
              raised |-> r.raised, device |-> r.device, before |-> data]
  /\ UNCHANGED apivars
  /\ UNCHANGED auxvars

StoreRemove(serial) ==
  LET r == remove_device(data, serial) IN
  /\ data' = r.data
  /\ prev' = last
  /\ last' = [op |-> "remove", serial |-> serial, public_key |-> "",
              raised |-> r.raised, device |-> NoDevice, before |-> data]
  /\ UNCHANGED apivars
  /\ UNCHANGED auxvars

NextRegistry ==
  \/ \E s \in Serials, k \in Keys : StoreRegister(s, k)
  \/ \E s \in Serials : StoreRemove(s)

SpecRegistry == InitRegistry /\ [][NextRegistry]_vars

(***************************************************************************)
(* wireguard_manager.py                                                    *)
(***************************************************************************)
\* f"{network}.{ip_last_octet}"
ip_address_of(network, ip_last_octet) ==
  network \o "." \o ToString(ip_last_octet)

\* str.splitlines() of the file text: lines end at "\n"; no empty last line.
splitlines(text) ==
  LET ends == {j \in 1..Len(text) : text[j] = "\n"}
              \cup (IF text # <<>> /\ text[Len(text)] # "\n"
                    THEN {Len(text) + 1} ELSE {})
      end(k) == CHOOSE j \in ends : Cardinality({h \in ends : h < j}) = k - 1
      start(k) == IF k = 1 THEN 1 ELSE end(k - 1) + 1
  IN [k \in 1..Cardinality(ends) |-> SubSeq(text, start(k), end(k) - 1)]

\* "\n".join(lines)
RECURSIVE join(_)
join(lines) ==
  IF lines = <<>> THEN <<>>
  ELSE IF Len(lines) = 1 THEN lines[1]
  ELSE lines[1] \o <<"\n">> \o join(Tail(lines))

\* needle in line
contains(line, needle) ==
  \E i \in 0..(Len(line) - Len(needle)) :
    SubSeq(line, i + 1, i + Len(needle)) = needle

Whitespace == {" ", "\t"}

\* str.strip()
RECURSIVE strip(_)
strip(line) ==
  IF line = <<>> THEN <<>>
  ELSE IF Head(line) \in Whitespace THEN strip(Tail(line))
  ELSE IF line[Len(line)] \in Whitespace THEN strip(SubSeq(line, 1, Len(line) - 1))
  ELSE line

PeerHeader == <<"[Peer]">>
PublicKeyLine(public_key) == <<"PublicKey = ", public_key>>
AllowedIPsLine(ip_address) == <<"AllowedIPs = ", ip_address \o "/32">>

\* The lambda add_peer hands to _modify_conf.
append_block(lines, public_key, ip_address) ==
  [ok |-> TRUE,
   lines |-> lines \o << <<>>, PeerHeader, PublicKeyLine(public_key),
                         AllowedIPsLine(ip_address) >>]

\* The loop of remove_block from line i on; new_lines.pop() on an empty list
\* raises IndexError (ok = FALSE).
RECURSIVE remove_block_loop(_, _, _, _, _)
remove_block_loop(lines, public_key, i, new_lines, skip) ==
  IF i > Len(lines) THEN [ok |-> TRUE, lines |-> new_lines]
  ELSE IF contains(lines[i], PublicKeyLine(public_key))
  THEN IF i > 1 /\ strip(lines[i - 1]) = PeerHeader
       THEN IF new_lines = <<>>
            THEN [ok |-> FALSE, lines |-> lines]
            ELSE remove_block_loop(lines, public_key, i + 1,
                                   SubSeq(new_lines, 1, Len(new_lines) - 1), 1)
       ELSE remove_block_loop(lines, public_key, i + 1, new_lines, 1)
  ELSE IF skip > 0
  THEN remove_block_loop(lines, public_key, i + 1, new_lines, skip - 1)
  ELSE remove_block_loop(lines, public_key, i + 1,
                         Append(new_lines, lines[i]), skip)

\* remove_peer.remove_block
remove_block(lines, public_key) ==
  remove_block_loop(lines, public_key, 1, <<>>, 0)

\* What _modify_conf writes back for the lines modify_func returned.
write_lines(new_lines) ==
  join(new_lines) \o <<"\n">>

\* _modify_conf with add_peer's lambda: the text of wg0.conf afterwards.
modify_conf_add(text, public_key, ip_address) ==
  LET r == append_block(splitlines(text), public_key, ip_address) IN
  [ok |-> r.ok, text |-> IF r.ok THEN write_lines(r.lines) ELSE text]

\* _modify_conf with remove_block: the text of wg0.conf afterwards.
modify_conf_remove(text, public_key) ==
  LET r == remove_block(splitlines(text), public_key) IN
  [ok |-> r.ok, text |-> IF r.ok THEN write_lines(r.lines) ELSE text]

\* wg set <interface> peer <public_key> allowed-ips <ip_address>/32
\* (the peer table is keyed by public key; what the kernel does to another
\* peer that holds the same allowed IP is outside the source).
wg_set_peer(peers, public_key, ip_address) ==
  dict_set(peers, public_key, ip_address \o "/32")

\* wg set <interface> peer <public_key> remove
wg_remove_peer(peers, public_key) ==
  dict_pop(peers, public_key)

(***************************************************************************)
(* device_routes.py                                                        *)
(***************************************************************************)
\* dict.get(key, default)
dict_get(d, k, default) ==
  IF k \in DOMAIN d THEN d[k] ELSE default

\* The except clauses of the /register handler.
register_status(raised) ==
  IF raised = "ValueError" THEN 400 ELSE 500

\* The except clauses of the /remove handler.
remove_status(raised) ==
  IF raised = "ValueError" THEN 404 ELSE 500

\* The "full_ip" the /list handler computes for one stored device.
full_ip(dev) ==
  ip_address_of(dict_get(dev, "network", DEFAULT_NETWORK), dev.ip_last_octet)

\* The body of the /list response: serial -> full_ip.
list_result(d) ==
  [serial \in DOMAIN list_devices(d) |-> full_ip(list_devices(d)[serial])]

\* The ip_address add_peer derives from the device dict it is given.
peer_address(dev) ==
  ip_address_of(dict_get(dev, "network", DEFAULT_NETWORK), dev.ip_last_octet)

\* The "assigned_ip" of the /register response.
assigned_ip(dev) ==
  ip_address_of(dev.network, dev.ip_last_octet)

Reply(status, detail) ==
  [status |-> status, detail |-> detail, assigned_ip |-> "", listing |-> <<>>]

\* /register up to and including device_store.register_device.
RegisterStore(p, serial, public_key) ==
  /\ pc[p] = "idle"
  /\ nreq < MaxRequests
  /\ LET r == register_device(data, serial, public_key) IN
     /\ data' = r.data
     /\ device' = [device EXCEPT ![p] = r.device]
     /\ IF r.raised = "none"
        THEN /\ pc' = [pc EXCEPT ![p] = "reg_wg"]
             /\ resp' = [resp EXCEPT ![p] = NoResp]
        ELSE /\ pc' = pc
             /\ resp' = [resp EXCEPT ![p] =
                           Reply(register_status(r.raised), r.detail)]
  /\ req' = [req EXCEPT ![p] = [op |-> "register", serial |-> serial,
                                public_key |-> public_key]]
  /\ err' = [err EXCEPT ![p] = ""]
  /\ nreq' = nreq + 1
  /\ UNCHANGED <<live, conf, fault, last, prev>>
  /\ UNCHANGED auxvars

\* add_peer, step 1: the wg set command succeeds.
RegisterWgOk(p) ==
  /\ pc[p] = "reg_wg"
  /\ live' = wg_set_peer(live, device[p].public_key, peer_address(device[p]))
  /\ pc' = [pc EXCEPT ![p] = "reg_conf"]
  /\ UNCHANGED <<data, conf, req, device, err, resp, nreq, fault, last, prev>>
  /\ UNCHANGED auxvars

\* add_peer, step 1: the wg set command fails; add_peer raises RuntimeError.
RegisterWgFail(p) ==
  /\ pc[p] = "reg_wg"
  /\ err' = [err EXCEPT ![p] = "Failed to add peer"]
  /\ pc' = [pc EXCEPT ![p] = "reg_rollback"]
  /\ fault' = TRUE
  /\ UNCHANGED <<data, live, conf, req, device, resp, nreq, last, prev>>
  /\ UNCHANGED auxvars

\* add_peer, step 2: the block is appended to wg0.conf; the handler returns.
RegisterConfOk(p) ==
  /\ pc[p] = "reg_conf"
  /\ conf' = modify_conf_add(conf, device[p].public_key,
                             peer_address(device[p])).text
  /\ resp' = [resp EXCEPT ![p] =
                [status |-> 200, detail |-> "",
                 assigned_ip |-> assigned_ip(device[p]), listing |-> <<>>]]
  /\ pc' = [pc EXCEPT ![p] = "idle"]
  /\ UNCHANGED <<data, live, req, device, err, nreq, fault, last, prev>>
  /\ UNCHANGED auxvars

\* add_peer, step 2: wg0.conf cannot be opened; _modify_conf raises OSError.
RegisterConfFail(p) ==
  /\ pc[p] = "reg_conf"
  /\ err' = [err EXCEPT ![p] = "OSError"]
  /\ pc' = [pc EXCEPT ![p] = "reg_rollback"]
  /\ fault' = TRUE
  /\ UNCHANGED <<data, live, conf, req, device, resp, nreq, last, prev>>
  /\ UNCHANGED auxvars

\* The except branch of /register: device_store.remove_device, then raise.
RegisterRollback(p) ==
  /\ pc[p] = "reg_rollback"
  /\ LET r == remove_device(data, req[p].serial) IN
     /\ data' = r.data
     /\ resp' = [resp EXCEPT ![p] =
                   IF r.raised = "none"
                   THEN Reply(register_status("RuntimeError"),
                              "Failed to add to WireGuard: " \o err[p])
                   ELSE Reply(register_status(r.raised), r.detail)]
  /\ pc' = [pc EXCEPT ![p] = "idle"]
  /\ UNCHANGED <<live, conf, req, device, err, nreq, fault, last, prev>>
  /\ UNCHANGED auxvars

\* /remove up to and including device_store.get_device.
RemoveLookup(p, serial) ==
  /\ pc[p] = "idle"
  /\ nreq < MaxRequests
  /\ LET r == get_device(data, serial) IN
     /\ device' = [device EXCEPT ![p] = r.device]
     /\ IF r.raised = "none"
        THEN /\ pc' = [pc EXCEPT ![p] = "rm_wg"]
             /\ resp' = [resp EXCEPT ![p] = NoResp]
        ELSE /\ pc' = pc
             /\ resp' = [resp EXCEPT ![p] =
                           Reply(remove_status(r.raised), r.detail)]
  /\ req' = [req EXCEPT ![p] = [op |-> "remove", serial |-> serial,
                                public_key |-> ""]]
  /\ err' = [err EXCEPT ![p] = ""]
  /\ nreq' = nreq + 1
  /\ UNCHANGED <<data, live, conf, fault, last, prev>>
  /\ UNCHANGED auxvars

\* remove_peer, step 1: the wg set ... remove command succeeds.
RemoveWgOk(p) ==
  /\ pc[p] = "rm_wg"
  /\ live' = wg_remove_peer(live, device[p].public_key)
  /\ pc' = [pc EXCEPT ![p] = "rm_conf"]
  /\ UNCHANGED <<data, conf, req, device, err, resp, nreq, fault, last, prev>>
  /\ UNCHANGED auxvars

\* A mutant of RemoveWgFail: the handler releases the registry record although
\* remove_peer failed.
RemoveWgFail_releasing(p) ==
  /\ pc[p] = "rm_wg"
  /\ data' = remove_device(data, req[p].serial).data
  /\ resp' = [resp EXCEPT ![p] =
                Reply(remove_status("RuntimeError"), "Failed to remove peer")]
  /\ pc' = [pc EXCEPT ![p] = "idle"]
  /\ fault' = TRUE
  /\ UNCHANGED <<live, conf, req, device, err, nreq, last, prev>>
  /\ UNCHANGED auxvars

\* remove_peer, step 1: the wg command fails; remove_peer raises RuntimeError.
RemoveWgFail(p) ==
  /\ pc[p] = "rm_wg"
  /\ resp' = [resp EXCEPT ![p] =
                Reply(remove_status("RuntimeError"), "Failed to remove peer")]
  /\ pc' = [pc EXCEPT ![p] = "idle"]
  /\ fault' = TRUE
  /\ UNCHANGED <<data, live, conf, req, device, err, nreq, last, prev>>
  /\ UNCHANGED auxvars

\* remove_peer, step 2: _modify_conf(remove_block).
RemoveConfOk(p) ==
  /\ pc[p] = "rm_conf"
  /\ LET m == modify_conf_remove(conf, device[p].public_key) IN
     /\ conf' = m.text
     /\ IF m.ok
        THEN /\ pc' = [pc EXCEPT ![p] = "rm_store"]
             /\ resp' = resp
        ELSE /\ pc' = [pc EXCEPT ![p] = "idle"]
             /\ resp' = [resp EXCEPT ![p] =
                           Reply(remove_status("IndexError"), "Unexpected error")]
  /\ UNCHANGED <<data, live, req, device, err, nreq, fault, last, prev>>
  /\ UNCHANGED auxvars

\* remove_peer, step 2: wg0.conf cannot be opened; _modify_conf raises OSError.
RemoveConfFail(p) ==
  /\ pc[p] = "rm_conf"
  /\ resp' = [resp EXCEPT ![p] =
                Reply(remove_status("OSError"), "Unexpected error")]
  /\ pc' = [pc EXCEPT ![p] = "idle"]
  /\ fault' = TRUE
  /\ UNCHANGED <<data, live, conf, req, device, err, nreq, last, prev>>
  /\ UNCHANGED auxvars

\* /remove, last step: device_store.remove_device and the response.
RemoveStore(p) ==
  /\ pc[p] = "rm_store"
  /\ LET r == remove_device(data, req[p].serial) IN
     /\ data' = r.data
     /\ resp' = [resp EXCEPT ![p] =
                   IF r.raised = "none"
                   THEN Reply(200, "removed successfully")
                   ELSE Reply(remove_status(r.raised), r.detail)]
  /\ pc' = [pc EXCEPT ![p] = "idle"]
  /\ UNCHANGED <<live, conf, req, device, err, nreq, fault, last, prev>>
  /\ UNCHANGED auxvars

\* /list
ListDevices(p) ==
  /\ pc[p] = "idle"
  /\ nreq < MaxRequests
  /\ req' = [req EXCEPT ![p] = [op |-> "list", serial |-> "", public_key |-> ""]]
  /\ resp' = [resp EXCEPT ![p] =
                [status |-> 200, detail |-> "", assigned_ip |-> "",
                 listing |-> list_result(data)]]
  /\ device' = [device EXCEPT ![p] = NoDevice]
  /\ err' = [err EXCEPT ![p] = ""]
  /\ nreq' = nreq + 1
  /\ UNCHANGED <<data, live, conf, pc, fault, last, prev>>
  /\ UNCHANGED auxvars

Next ==
  \/ \E p \in Procs, s \in ReqSerials, k \in ReqKeys : RegisterStore(p, s, k)
  \/ \E p \in Procs : RegisterWgOk(p)
  \/ \E p \in Procs : RegisterWgFail(p)
  \/ \E p \in Procs : RegisterConfOk(p)
  \/ \E p \in Procs : RegisterConfFail(p)
  \/ \E p \in Procs : RegisterRollback(p)
  \/ \E p \in Procs, s \in ReqSerials : RemoveLookup(p, s)
  \/ \E p \in Procs : RemoveWgOk(p)
  \/ \E p \in Procs : RemoveWgFail(p)
  \/ \E p \in Procs : RemoveConfOk(p)
  \/ \E p \in Procs : RemoveConfFail(p)
  \/ \E p \in Procs : RemoveStore(p)
  \/ \E p \in Procs : ListDevices(p)

Spec == Init /\ [][Next]_vars

(***************************************************************************)
(* The same handlers with every flock and every subprocess call as a step  *)
(* of its own.  A DeviceStore method is two steps (open + flock, then the  *)
(* body up to the close that drops the lock), a wg command is two steps    *)
(* (subprocess.run starts, subprocess.run returns) and _modify_conf is two *)
(* steps (open + flock, then the rewrite up to LOCK_UN).                   *)
(***************************************************************************)
LockSerials == {"A", "B"}
LockKeys == {"K1", "K2"}

\* Positions at which the request is about to take a lock, or holds one, or
\* waits for subprocess.run to return.
RegistryExWait == {"reg_lock_wait", "rb_lock_wait", "rm_lock_wait"}
RegistryExHeld == {"reg_locked", "rb_locked", "rm_locked"}
RegistryShWait == {"get_lock_wait"}
RegistryShHeld == {"get_locked"}
ConfWait == {"conf_add_wait", "conf_rm_wait"}
ConfHeld == {"conf_add_locked", "conf_rm_locked"}
WgCall == {"wg_add_call", "wg_rm_call"}
WgRunning == {"wg_add_running", "wg_rm_running"}

\* The position a request moves to when the call it waits for is entered.
entered(at) ==
  CASE at = "reg_lock_wait" -> "reg_locked"
    [] at = "rb_lock_wait" -> "rb_locked"
    [] at = "rm_lock_wait" -> "rm_locked"
    [] at = "get_lock_wait" -> "get_locked"
    [] at = "conf_add_wait" -> "conf_add_locked"
    [] at = "conf_rm_wait" -> "conf_rm_locked"
    [] at = "wg_add_call" -> "wg_add_running"
    [] at = "wg_rm_call" -> "wg_rm_running"

\* A pool of one address (max_ip = next_ip) or the pool of the bound.
InitLocks ==
  /\ data \in {initial_state(m, DEFAULT_NETWORK) : m \in {FIRST_IP, MaxIp}}
  /\ live = <<>>
  /\ conf = InitialConf
  /\ pc = [p \in Procs |-> "idle"]
  /\ req = [p \in Procs |-> NoReq]
  /\ device = [p \in Procs |-> NoDevice]
  /\ err = [p \in Procs |-> ""]
  /\ resp = [p \in Procs |-> NoResp]
  /\ nreq = 0
  /\ fault = FALSE
  /\ last = NoCall
  /\ prev = NoCall
  /\ reg_lock = NoLock
  /\ conf_lock = ""
  /\ file_exists = TRUE
  /\ boot = [p \in Procs |-> "ready"]

\* A /register request arrives; the handler is about to call register_device.
RegisterBegin(p, serial, public_key) ==
  /\ pc[p] = "idle"
  /\ nreq < MaxRequests
  /\ req' = [req EXCEPT ![p] = [op |-> "register", serial |-> serial,
                                public_key |-> public_key]]
  /\ device' = [device EXCEPT ![p] = NoDevice]
  /\ err' = [err EXCEPT ![p] = ""]
  /\ resp' = [resp EXCEPT ![p] = NoResp]
  /\ nreq' = nreq + 1
  /\ pc' = [pc EXCEPT ![p] = "reg_lock_wait"]
  /\ UNCHANGED <<data, live, conf, fault, last, prev>>
  /\ UNCHANGED auxvars

\* A /remove request arrives; the handler is about to call get_device.
RemoveBegin(p, serial) ==
  /\ pc[p] = "idle"
  /\ nreq < MaxRequests
  /\ req' = [req EXCEPT ![p] = [op |-> "remove", serial |-> serial,
                                public_key |-> ""]]
  /\ device' = [device EXCEPT ![p] = NoDevice]
  /\ err' = [err EXCEPT ![p] = ""]
  /\ resp' = [resp EXCEPT ![p] = NoResp]
  /\ nreq' = nreq + 1
  /\ pc' = [pc EXCEPT ![p] = "get_lock_wait"]
  /\ UNCHANGED <<data, live, conf, fault, last, prev>>
  /\ UNCHANGED auxvars

\* open(devices.json, "r+") and fcntl.flock(f, LOCK_EX): blocks while anybody
\* holds the lock.
FlockRegistryEx(p) ==
  /\ pc[p] \in RegistryExWait
  /\ reg_lock = NoLock
  /\ reg_lock' = [ex |-> p, sh |-> {}]
  /\ pc' = [pc EXCEPT ![p] = entered(pc[p])]
  /\ UNCHANGED <<data, live, conf, req, device, err, resp, nreq, fault, last, prev>>
  /\ UNCHANGED <<conf_lock, file_exists, boot>>

\* open(devices.json, "r") and fcntl.flock(f, LOCK_SH): blocks while somebody
\* holds the lock exclusively.
FlockRegistrySh(p) ==
  /\ pc[p] \in RegistryShWait
  /\ reg_lock.ex = ""
  /\ reg_lock' = [reg_lock EXCEPT !.sh = @ \cup {p}]
  /\ pc' = [pc EXCEPT ![p] = entered(pc[p])]
  /\ UNCHANGED <<data, live, conf, req, device, err, resp, nreq, fault, last, prev>>
  /\ UNCHANGED <<conf_lock, file_exists, boot>>

\* A mutant of close: the lock outlives the with block.
close_kept(lock, p) == lock

\* Leaving the with block closes the file, which drops this holder's flock.
close(lock, p) ==
  [ex |-> IF lock.ex = p THEN "" ELSE lock.ex, sh |-> lock.sh \ {p}]

\* A mutant of LockedRegister: a rejection by register_device is caught by the
\* inner except, so the compensating remove_device runs on it.
LockedRegister_compensating(p) ==
  /\ pc[p] = "reg_locked"
  /\ LET r == register_device(data, req[p].serial, req[p].public_key) IN
     /\ data' = r.data
     /\ device' = [device EXCEPT ![p] = r.device]
     /\ IF r.raised = "none"
        THEN /\ pc' = [pc EXCEPT ![p] = "wg_add_call"]
             /\ err' = err
        ELSE /\ pc' = [pc EXCEPT ![p] = "rb_lock_wait"]
             /\ err' = [err EXCEPT ![p] = r.detail]
  /\ reg_lock' = close(reg_lock, p)
  /\ UNCHANGED <<live, conf, req, resp, nreq, fault, last, prev>>
  /\ UNCHANGED <<conf_lock, file_exists, boot>>

\* register_device under the lock, up to the close; then the handler's
\* except clauses or the call of add_peer.
LockedRegister(p) ==
  /\ pc[p] = "reg_locked"
  /\ LET r == register_device(data, req[p].serial, req[p].public_key) IN
     /\ data' = r.data
     /\ device' = [device EXCEPT ![p] = r.device]
     /\ IF r.raised = "none"
        THEN /\ pc' = [pc EXCEPT ![p] = "wg_add_call"]
             /\ resp' = resp
        ELSE /\ pc' = [pc EXCEPT ![p] = "idle"]
             /\ resp' = [resp EXCEPT ![p] =
                           Reply(register_status(r.raised), r.detail)]
  /\ reg_lock' = close(reg_lock, p)
  /\ UNCHANGED <<live, conf, req, err, nreq, fault, last, prev>>
  /\ UNCHANGED <<conf_lock, file_exists, boot>>

\* get_device under the shared lock, up to the close; then the handler's
\* except clauses or the call of remove_peer.
LockedGet(p) ==
  /\ pc[p] = "get_locked"
  /\ LET r == get_device(data, req[p].serial) IN
     /\ device' = [device EXCEPT ![p] = r.device]
     /\ IF r.raised = "none"
        THEN /\ pc' = [pc EXCEPT ![p] = "wg_rm_call"]
             /\ resp' = resp
        ELSE /\ pc' = [pc EXCEPT ![p] = "idle"]
             /\ resp' = [resp EXCEPT ![p] =
                           Reply(remove_status(r.raised), r.detail)]
  /\ reg_lock' = close(reg_lock, p)
  /\ UNCHANGED <<data, live, conf, req, err, nreq, fault, last, prev>>
  /\ UNCHANGED <<conf_lock, file_exists, boot>>

\* subprocess.run(["wg", "set", ...]) starts; the handler waits for it.
WgStart(p) ==
  /\ pc[p] \in WgCall
  /\ pc' = [pc EXCEPT ![p] = entered(pc[p])]
  /\ UNCHANGED <<data, live, conf, req, device, err, resp, nreq, fault, last, prev>>
  /\ UNCHANGED auxvars

\* add_peer: wg set ... allowed-ips returns 0.
WgAddOk(p) ==
  /\ pc[p] = "wg_add_running"
  /\ live' = wg_set_peer(live, device[p].public_key, peer_address(device[p]))
  /\ pc' = [pc EXCEPT ![p] = "conf_add_wait"]
  /\ UNCHANGED <<data, conf, req, device, err, resp, nreq, fault, last, prev>>
  /\ UNCHANGED auxvars

\* A mutant of WgAddFail: add_peer writes its block to wg0.conf before it runs
\* the wg command, so a failing command leaves the block behind.
WgAddFail_conf_first(p) ==
  /\ pc[p] = "wg_add_running"
  /\ conf' = modify_conf_add(conf, device[p].public_key,
                             peer_address(device[p])).text
  /\ err' = [err EXCEPT ![p] = "Failed to add peer"]
  /\ pc' = [pc EXCEPT ![p] = "rb_lock_wait"]
  /\ fault' = TRUE
  /\ UNCHANGED <<data, live, req, device, resp, nreq, last, prev>>
  /\ UNCHANGED auxvars

\* add_peer: wg set fails; RuntimeError reaches the handler's inner except.
WgAddFail(p) ==
  /\ pc[p] = "wg_add_running"
  /\ err' = [err EXCEPT ![p] = "Failed to add peer"]
  /\ pc' = [pc EXCEPT ![p] = "rb_lock_wait"]
  /\ fault' = TRUE
  /\ UNCHANGED <<data, live, conf, req, device, resp, nreq, last, prev>>
  /\ UNCHANGED auxvars

\* remove_peer: wg set ... remove returns 0.
WgRemoveOk(p) ==
  /\ pc[p] = "wg_rm_running"
  /\ live' = wg_remove_peer(live, device[p].public_key)
  /\ pc' = [pc EXCEPT ![p] = "conf_rm_wait"]
  /\ UNCHANGED <<data, conf, req, device, err, resp, nreq, fault, last, prev>>
  /\ UNCHANGED auxvars

\* remove_peer: wg set ... remove fails; the handler answers 500.
WgRemoveFail(p) ==
  /\ pc[p] = "wg_rm_running"
  /\ resp' = [resp EXCEPT ![p] =
                Reply(remove_status("RuntimeError"), "Failed to remove peer")]
  /\ pc' = [pc EXCEPT ![p] = "idle"]
  /\ fault' = TRUE
  /\ UNCHANGED <<data, live, conf, req, device, err, nreq, last, prev>>
  /\ UNCHANGED auxvars

\* _modify_conf: open(wg0.conf, "r+") and fcntl.flock(f, LOCK_EX).
FlockConf(p) ==
  /\ pc[p] \in ConfWait
  /\ conf_lock = ""
  /\ conf_lock' = p
  /\ pc' = [pc EXCEPT ![p] = entered(pc[p])]
  /\ UNCHANGED <<data, live, conf, req, device, err, resp, nreq, fault, last, prev>>
  /\ UNCHANGED <<reg_lock, file_exists, boot>>

\* _modify_conf: open(wg0.conf, "r+") raises OSError; no lock was taken.
OpenConfFail(p) ==
  /\ pc[p] \in ConfWait
  /\ IF pc[p] = "conf_add_wait"
     THEN /\ err' = [err EXCEPT ![p] = "OSError"]
          /\ pc' = [pc EXCEPT ![p] = "rb_lock_wait"]
          /\ resp' = resp
     ELSE /\ err' = err
          /\ pc' = [pc EXCEPT ![p] = "idle"]
          /\ resp' = [resp EXCEPT ![p] =
                        Reply(remove_status("OSError"), "Unexpected error")]
  /\ fault' = TRUE
  /\ UNCHANGED <<data, live, conf, req, device, nreq, last, prev>>
  /\ UNCHANGED auxvars

\* add_peer's _modify_conf under the lock, up to LOCK_UN; the handler
\* returns the assigned address.
LockedConfAdd(p) ==
  /\ pc[p] = "conf_add_locked"
  /\ conf' = modify_conf_add(conf, device[p].public_key,
                             peer_address(device[p])).text
  /\ conf_lock' = ""
  /\ resp' = [resp EXCEPT ![p] =
                [status |-> 200, detail |-> "",
                 assigned_ip |-> assigned_ip(device[p]), listing |-> <<>>]]
  /\ pc' = [pc EXCEPT ![p] = "idle"]
  /\ UNCHANGED <<data, live, req, device, err, nreq, fault, last, prev>>
  /\ UNCHANGED <<reg_lock, file_exists, boot>>

\* remove_peer's _modify_conf under the lock; an IndexError in remove_block
\* leaves the with block, which closes the file and drops the lock.
LockedConfRemove(p) ==
  /\ pc[p] = "conf_rm_locked"
  /\ LET m == modify_conf_remove(conf, device[p].public_key) IN
     /\ conf' = m.text
     /\ IF m.ok
        THEN /\ pc' = [pc EXCEPT ![p] = "rm_lock_wait"]
             /\ resp' = resp
        ELSE /\ pc' = [pc EXCEPT ![p] = "idle"]
             /\ resp' = [resp EXCEPT ![p] =
                           Reply(remove_status("IndexError"), "Unexpected error")]
  /\ conf_lock' = ""
  /\ UNCHANGED <<data, live, req, device, err, nreq, fault, last, prev>>
  /\ UNCHANGED <<reg_lock, file_exists, boot>>

\* A mutant of LockedRollback: the raise leaves the file open and locked.
LockedRollback_keeps_lock(p) ==
  /\ pc[p] = "rb_locked"
  /\ LET r == remove_device(data, req[p].serial) IN
     /\ data' = r.data
     /\ resp' = [resp EXCEPT ![p] =
                   IF r.raised = "none"
                   THEN Reply(register_status("RuntimeError"),
                              "Failed to add to WireGuard: " \o err[p])
                   ELSE Reply(register_status(r.raised), r.detail)]
  /\ pc' = [pc EXCEPT ![p] = "idle"]
  /\ UNCHANGED <<live, conf, req, device, err, nreq, fault, last, prev>>
  /\ UNCHANGED auxvars

\* The compensating remove_device of /register under the lock, then the raise.
LockedRollback(p) ==
  /\ pc[p] = "rb_locked"
  /\ LET r == remove_device(data, req[p].serial) IN
     /\ data' = r.data
     /\ resp' = [resp EXCEPT ![p] =
                   IF r.raised = "none"
                   THEN Reply(register_status("RuntimeError"),
                              "Failed to add to WireGuard: " \o err[p])
                   ELSE Reply(register_status(r.raised), r.detail)]
  /\ reg_lock' = close(reg_lock, p)
  /\ pc' = [pc EXCEPT ![p] = "idle"]
  /\ UNCHANGED <<live, conf, req, device, err, nreq, fault, last, prev>>
  /\ UNCHANGED <<conf_lock, file_exists, boot>>

\* The remove_device of /remove under the lock, then the response.
LockedRemove(p) ==
  /\ pc[p] = "rm_locked"
  /\ LET r == remove_device(data, req[p].serial) IN
     /\ data' = r.data
     /\ resp' = [resp EXCEPT ![p] =
                   IF r.raised = "none"
                   THEN Reply(200, "removed successfully")
                   ELSE Reply(remove_status(r.raised), r.detail)]
  /\ reg_lock' = close(reg_lock, p)
  /\ pc' = [pc EXCEPT ![p] = "idle"]
  /\ UNCHANGED <<live, conf, req, device, err, nreq, fault, last, prev>>
  /\ UNCHANGED <<conf_lock, file_exists, boot>>

\* Every step a request takes once it has arrived.
Proceed(p) ==
  \/ FlockRegistryEx(p)
  \/ FlockRegistrySh(p)
  \/ LockedRegister(p)
  \/ LockedGet(p)
  \/ WgStart(p)
  \/ WgAddOk(p)
  \/ WgAddFail(p)
  \/ WgRemoveOk(p)
  \/ WgRemoveFail(p)
  \/ FlockConf(p)
  \/ OpenConfFail(p)
  \/ LockedConfAdd(p)
  \/ LockedConfRemove(p)
  \/ LockedRollback(p)
  \/ LockedRemove(p)

NextLocks ==
  \/ \E p \in Procs, s \in LockSerials, k \in LockKeys : RegisterBegin(p, s, k)
  \/ \E p \in Procs, s \in LockSerials : RemoveBegin(p, s)
  \/ \E p \in Procs : Proceed(p)

SpecLocks == InitLocks /\ [][NextLocks]_vars

\* The thread pool runs every handler that can take a step, and a wg command
\* returns (with either exit status): each request keeps proceeding.
Fairness == \A p \in Procs : WF_vars(Proceed(p))

LiveSerials == {"A"}
LiveKeys == {"K1"}

InitLive == InitLocks /\ data.ip_state.max_ip = MaxIp

NextLive ==
  \/ \E p \in Procs, s \in LiveSerials, k \in LiveKeys : RegisterBegin(p, s, k)
  \/ \E p \in Procs, s \in LiveSerials : RemoveBegin(p, s)
  \/ \E p \in Procs : Proceed(p)

SpecLive == InitLive /\ [][NextLive]_vars /\ Fairness

(***************************************************************************)
(* Start-up: every process that imports device_store runs                  *)
(* DeviceStore.__init__, whose _ensure_file_exists tests for devices.json  *)
(* and writes the initial state in two separate steps, without flock.  A   *)
(* process that has finished start-up serves register_device calls.        *)
(***************************************************************************)
\* What `data` holds while devices.json does not exist.
NoFile == initial_state(0, "")

InitBoot ==
  /\ data = NoFile
  /\ file_exists = FALSE
  /\ boot = [p \in Procs |-> "start"]
  /\ live = <<>>
  /\ conf = InitialConf
  /\ pc = [p \in Procs |-> "idle"]
  /\ req = [p \in Procs |-> NoReq]
  /\ device = [p \in Procs |-> NoDevice]
  /\ err = [p \in Procs |-> ""]
  /\ resp = [p \in Procs |-> NoResp]
  /\ nreq = 0
  /\ fault = FALSE
  /\ last = NoCall
  /\ prev = NoCall
  /\ reg_lock = NoLock
  /\ conf_lock = ""

\* _ensure_file_exists: `if not self.devices_file.exists()`.
ExistsTest(p) ==
  /\ boot[p] = "start"
  /\ boot' = [boot EXCEPT ![p] = IF file_exists THEN "ready" ELSE "absent_seen"]
  /\ UNCHANGED <<data, file_exists, reg_lock, conf_lock>>
  /\ UNCHANGED apivars
  /\ UNCHANGED <<last, prev>>

\* _ensure_file_exists: write_text(initial_state) creates or truncates the
\* file, whoever holds its flock; then chmod.
WriteInitial(p) ==
  /\ boot[p] = "absent_seen"
  /\ data' = initial_state(MaxIp, DEFAULT_NETWORK)
  /\ file_exists' = TRUE
  /\ boot' = [boot EXCEPT ![p] = "ready"]
  /\ UNCHANGED <<reg_lock, conf_lock>>
  /\ UNCHANGED apivars
  /\ UNCHANGED <<last, prev>>

\* A process that finished start-up calls register_device.
BootRegister(p, serial, public_key) ==
  /\ boot[p] = "ready"
  /\ nreq < MaxRequests
  /\ LET r == register_device(data, serial, public_key) IN
     /\ data' = r.data
     /\ prev' = last
     /\ last' = [op |-> "register", serial |-> serial,
                 public_key |-> public_key, raised |-> r.raised,
                 device |-> r.device, before |-> data]
  /\ nreq' = nreq + 1
  /\ UNCHANGED <<live, conf, pc, req, device, err, resp, fault>>
  /\ UNCHANGED auxvars

NextBoot ==
  \/ \E p \in Procs : ExistsTest(p)
  \/ \E p \in Procs : WriteInitial(p)
  \/ \E p \in Procs, s \in Serials, k \in Keys : BootRegister(p, s, k)

SpecBoot == InitBoot /\ [][NextBoot]_vars

(***************************************************************************)
(* Properties of the registry and its address pool                         *)
(***************************************************************************)
Assigned(d) == {d.devices[s].ip_last_octet : s \in DOMAIN d.devices}
Holders(d, x) == {s \in DOMAIN d.devices : d.devices[s].ip_last_octet = x}
FreeAt(d, x) == {i \in 1..Len(d.ip_state.free_ips) : d.ip_state.free_ips[i] = x}
KeyFree(d, k) == \A s \in DOMAIN d.devices : d.devices[s].public_key # k
Fresh(c) == c.serial \notin DOMAIN c.before.devices /\ KeyFree(c.before, c.public_key)
SetMin(S) == CHOOSE x \in S : \A y \in S : x <= y

\* C1: no two devices in the registry share an address suffix, and no two
\* share a public key, after any sequence of register and remove calls.
C1_UniqueSuffixAndKey ==
  \A s, t \in DOMAIN data.devices :
    s # t => /\ data.devices[s].ip_last_octet # data.devices[t].ip_last_octet
             /\ data.devices[s].public_key # data.devices[t].public_key

\* C1 witness: a register call has just put a second device beside one that
\* holds a re-issued suffix.
C1_Witness ==
  /\ last.op = "register" /\ last.raised = "none"
  /\ Cardinality(DOMAIN data.devices) = 2
  /\ last.before.ip_state.free_ips # <<>>

\* C2: every suffix in [2, next_ip - 1] is held by exactly one device or is
\* exactly once in free_ips (never both, never neither); free_ips is strictly
\* ascending; next_ip <= max_ip + 1.
C2_PoolPartition ==
  /\ \A x \in FIRST_IP..(data.ip_state.next_ip - 1) :
       \/ Cardinality(Holders(data, x)) = 1 /\ FreeAt(data, x) = {}
       \/ Holders(data, x) = {} /\ Cardinality(FreeAt(data, x)) = 1
  /\ \A i \in 1..(Len(data.ip_state.free_ips) - 1) :
       data.ip_state.free_ips[i] < data.ip_state.free_ips[i + 1]
  /\ data.ip_state.next_ip <= data.ip_state.max_ip + 1

\* C2 witness: a compensating remove has ended a register with status 500
\* and free_ips holds two released suffixes.
C2_Witness ==
  /\ \E p \in Procs : /\ req[p].op = "register" /\ pc[p] = "idle"
                      /\ resp[p].status = 500 /\ err[p] # ""
  /\ Len(data.ip_state.free_ips) = 2

\* C6: the pool holds exactly max_ip - 1 devices.  A register of a new
\* serial and key succeeds while fewer are registered; with max_ip - 1
\* registered it raises the exhaustion error and changes nothing; after a
\* remove from the full pool the retried register succeeds with the removed
\* device's suffix.
C6_PoolCapacity ==
  /\ Cardinality(DOMAIN data.devices) <= data.ip_state.max_ip - 1
  /\ (last.op = "register" /\ Fresh(last)) =>
       IF Cardinality(DOMAIN last.before.devices) < last.before.ip_state.max_ip - 1
       THEN last.raised = "none"
       ELSE last.raised = "RuntimeError" /\ data = last.before
  /\ ( /\ last.op = "register" /\ Fresh(last)
       /\ prev.op = "remove" /\ prev.raised = "none"
       /\ Cardinality(DOMAIN prev.before.devices) = prev.before.ip_state.max_ip - 1 )
     => /\ last.raised = "none"
        /\ last.device.ip_last_octet = prev.before.devices[prev.serial].ip_last_octet

\* C6 witness: a register that follows a remove from the full pool.
C6_Witness ==
  /\ last.op = "register" /\ Fresh(last) /\ last.raised = "none"
  /\ prev.op = "remove" /\ prev.raised = "none"
  /\ Cardinality(DOMAIN prev.before.devices) = prev.before.ip_state.max_ip - 1
  /\ Cardinality(DOMAIN data.devices) = data.ip_state.max_ip - 1

\* C7: a successful register takes the smallest entry of free_ips when there
\* is one and leaves next_ip alone; next_ip moves only when free_ips is empty;
\* so the suffix given is the smallest of [2, max_ip] that no device holds.
C7_Compact ==
  (last.op = "register" /\ last.raised = "none") =>
    LET b == last.before
        free == {b.ip_state.free_ips[i] : i \in 1..Len(b.ip_state.free_ips)}
    IN /\ free # {} => /\ last.device.ip_last_octet = SetMin(free)
                       /\ data.ip_state.next_ip = b.ip_state.next_ip
       /\ data.ip_state.next_ip # b.ip_state.next_ip => free = {}
       /\ last.device.ip_last_octet =
            SetMin((FIRST_IP..b.ip_state.max_ip) \ Assigned(b))

\* C7 witness: a register served from a free list with two entries.
C7_Witness ==
  /\ last.op = "register" /\ last.raised = "none"
  /\ Len(last.before.ip_state.free_ips) = 2

\* C8: a register rejected because the serial or the public key is already
\* there leaves the file as it was, and does not add the rejected serial.
C8_ConflictNoChange ==
  (last.op = "register" /\ last.raised = "ValueError") =>
    /\ data = last.before
    /\ last.serial \notin DOMAIN last.before.devices
         => last.serial \notin DOMAIN data.devices

\* C8 witness: a register of a new serial rejected for its public key, with
\* a released suffix waiting in free_ips.
C8_Witness ==
  /\ last.op = "register" /\ last.raised = "ValueError"
  /\ last.serial \notin DOMAIN last.before.devices
  /\ data.ip_state.free_ips # <<>>

(***************************************************************************)
(* Direct calls of remove_peer's file step on configuration texts           *)
(***************************************************************************)
GlobalSection == << <<"[Interface]">>, <<"ListenPort = 51820">> >>

\* Peer sections as wg0.conf may hold them: the block add_peer writes, with
\* and without its blank separator, and sections with other field layouts.
PeerSections(k, ip) ==
  { <<>>,
    << PeerHeader, PublicKeyLine(k), AllowedIPsLine(ip) >>,
    << <<>>, PeerHeader, PublicKeyLine(k), AllowedIPsLine(ip) >>,
    << PeerHeader, PublicKeyLine(k), AllowedIPsLine(ip),
       <<"PersistentKeepalive = ", "25">> >>,
    << PeerHeader, AllowedIPsLine(ip), PublicKeyLine(k) >>,
    << PeerHeader, PublicKeyLine(k) >> }

ConfTexts ==
  { write_lines(GlobalSection \o a \o b) :
      a \in PeerSections("K1", "10.10.0.2") \cup PeerSections("K2", "10.10.0.3"),
      b \in PeerSections("K2", "10.10.0.3") \cup PeerSections("K3", "10.10.0.4") }

InitConf ==
  /\ data = initial_state(MaxIp, DEFAULT_NETWORK)
  /\ live = <<>>
  /\ conf \in ConfTexts
  /\ pc = [p \in Procs |-> "idle"]
  /\ req = [p \in Procs |-> NoReq]
  /\ device = [p \in Procs |-> NoDevice]
  /\ err = [p \in Procs |-> ""]
  /\ resp = [p \in Procs |-> NoResp]
  /\ nreq = 0
  /\ fault = FALSE
  /\ last = NoCall
  /\ prev = NoCall
  /\ reg_lock = NoLock
  /\ conf_lock = ""
  /\ file_exists = TRUE
  /\ boot = [p \in Procs |-> "ready"]

ConfRemovePeer(public_key) ==
  LET m == modify_conf_remove(conf, public_key) IN
  /\ conf' = m.text
  /\ prev' = last
  /\ last' = [op |-> "remove_peer", serial |-> "", public_key |-> public_key,
              raised |-> IF m.ok THEN "none" ELSE "IndexError",
              device |-> NoDevice, before |-> conf]
  /\ UNCHANGED <<data, live, pc, req, device, err, resp, nreq, fault>>
  /\ UNCHANGED auxvars

NextConf == \E k \in Keys : ConfRemovePeer(k)

SpecConf == InitConf /\ [][NextConf]_vars

(***************************************************************************)
(* Properties of the handlers and the synchronizer                         *)
(***************************************************************************)
AllIdle == \A p \in Procs : pc[p] = "idle"

RegistryPeers ==
  { <<data.devices[s].public_key,
      ip_address_of(data.ip_state.network, data.devices[s].ip_last_octet) \o "/32">> :
    s \in DOMAIN data.devices }

LivePeers == { <<k, live[k]>> : k \in DOMAIN live }

\* The peer sections of a text: [Peer], PublicKey = k, AllowedIPs = a.
ConfPeersOf(text) ==
  LET lines == splitlines(text) IN
  { <<lines[i + 1][2], lines[i + 2][2]>> :
      i \in { j \in 1..(Len(lines) - 2) :
                /\ strip(lines[j]) = PeerHeader
                /\ Len(lines[j + 1]) = 2 /\ lines[j + 1][1] = "PublicKey = "
                /\ Len(lines[j + 2]) = 2 /\ lines[j + 2][1] = "AllowedIPs = " } }

ConfMentions(text, k) ==
  \E i \in 1..Len(splitlines(text)) :
    contains(splitlines(text)[i], PublicKeyLine(k))

\* C3: with no request in flight and no failed wg command or file write so
\* far, the (public key, address) pairs of the registry are the peers of the
\* live interface and the peer sections of wg0.conf.
C3_StoresAgree ==
  (AllIdle /\ ~fault) =>
    /\ RegistryPeers = LivePeers
    /\ RegistryPeers = ConfPeersOf(conf)

\* C4: when the handler of a register whose wg set command failed finishes,
\* the registry does not hold the serial, the suffix it reserved is in
\* free_ips, and wg0.conf has no PublicKey line of the key.
C4_FailedApplyCompensated ==
  [][ \A p \in Procs :
        (pc[p] = "reg_rollback" /\ err[p] = "Failed to add peer" /\ pc'[p] = "idle")
        => /\ req[p].serial \notin DOMAIN data'.devices
           /\ FreeAt(data', device[p].ip_last_octet) # {}
           /\ ~ConfMentions(conf', req[p].public_key) ]_vars

\* C5: a /remove whose remove_peer fails ends with status 500, and no step
\* it has taken up to there has changed the registry file: the record it
\* looked up and the free list are as they were.
C5_RemoveFailureKeepsRegistry ==
  [][ \A p \in Procs :
        /\ (pc[p] \in {"rm_wg", "rm_conf"} /\ pc'[p] # pc[p]) => data' = data
        /\ (pc[p] \in {"rm_wg", "rm_conf"} /\ pc'[p] = "idle")
             => resp'[p].status = 500 ]_vars

\* C5 witness: a /remove has ended in the failure of the wg command while
\* the device it looked up is registered with its suffix, which is not free.
C5_Witness ==
  \E p \in Procs :
    /\ req[p].op = "remove" /\ pc[p] = "idle"
    /\ resp[p].status = 500 /\ resp[p].detail = "Failed to remove peer"
    /\ req[p].serial \in DOMAIN data.devices
    /\ data.devices[req[p].serial].ip_last_octet = device[p].ip_last_octet
    /\ FreeAt(data, device[p].ip_last_octet) = {}

\* Section structure of a configuration text: a header line followed by its
\* key/value lines.
IsHeader(line) == strip(line) \in {<<"[Peer]">>, <<"[Interface]">>}
IsField(line) == line # <<>> /\ ~IsHeader(line)
SameSection(lines, i, j) ==
  LET lo == IF i < j THEN i ELSE j
      hi == IF i < j THEN j ELSE i
  IN \E h \in 1..lo : /\ IsHeader(lines[h])
                      /\ \A x \in (h + 1)..hi : IsField(lines[x])
InSectionOf(lines, k, j) ==
  \E i \in 1..Len(lines) :
    /\ contains(lines[i], PublicKeyLine(k))
    /\ SameSection(lines, i, j)

RECURSIVE WithoutSection(_, _, _)
WithoutSection(lines, k, j) ==
  IF j > Len(lines) THEN <<>>
  ELSE (IF InSectionOf(lines, k, j) THEN <<>> ELSE <<lines[j]>>)
       \o WithoutSection(lines, k, j + 1)

\* C9: removing a key from a text made of a global section and peer sections
\* removes the lines of the section that holds the key, header and fields,
\* and leaves every other line as it was, in order.
C9_ExactSectionRemoval ==
  last.op = "remove_peer" =>
    /\ last.raised = "none"
    /\ conf = write_lines(WithoutSection(splitlines(last.before),
                                         last.public_key, 1))

\* C10: what /list reports for every registered device is the address made of
\* the pool's network prefix and the device's suffix, the address /register
\* returned and set on the live interface.
C10_ListedAddress ==
  list_result(data) =
    [s \in DOMAIN data.devices |->
       ip_address_of(data.ip_state.network, data.devices[s].ip_last_octet)]

(***************************************************************************)
(* Properties of the request protocol                                      *)
(***************************************************************************)
\* The three ways register_device rejects a request.
RegistryRejections ==
  {"Device already registered", "Public key already registered",
   "No available IP addresses"}

\* What the handler answers when add_peer failed and the compensation ran.
InterfaceFailureStatus == register_status("RuntimeError")

\* C11: every /register request that register_device rejected (serial taken,
\* key taken, pool exhausted) is answered with a client error (4xx), which is
\* not the status a failed interface apply is answered with.
C11_RegistryFailuresClientCaused ==
  \A p \in Procs :
    (req[p].op = "register" /\ pc[p] = "idle"
       /\ resp[p].detail \in RegistryRejections)
    => /\ resp[p].status \in 400..499
       /\ resp[p].status # InterfaceFailureStatus

\* C12: add_peer and remove_peer run the wg command before they touch
\* wg0.conf: the text changes only in a _modify_conf that a request entered
\* after its own wg command had returned 0 with the live peer set (removed),
\* and a wg command that fails leaves the text and the live peers as they were.
C12_LiveBeforeConf ==
  [][\A p \in Procs :
       /\ (pc'[p] \in ConfWait /\ pc[p] \notin ConfWait)
          => /\ pc[p] \in WgRunning
             /\ conf' = conf
             /\ IF pc'[p] = "conf_add_wait"
                THEN /\ device[p].public_key \in DOMAIN live'
                     /\ live'[device[p].public_key]
                          = peer_address(device[p]) \o "/32"
                ELSE device[p].public_key \notin DOMAIN live'
       /\ (pc'[p] \in ConfHeld /\ pc[p] \notin ConfHeld) => pc[p] \in ConfWait
       /\ (pc[p] \in WgRunning /\ pc'[p] \notin ConfWait \cup WgRunning)
          => conf' = conf /\ live' = live
       /\ (conf' # conf)
          => \E q \in Procs : pc[q] \in ConfHeld /\ pc'[q] \notin ConfHeld]_vars

\* A /register whose wg command failed with wg0.conf not naming its key, next
\* to a /remove whose wg command failed with wg0.conf still naming its key.
C12_Witness ==
  \E p, q \in Procs :
    /\ pc[p] = "rb_lock_wait" /\ err[p] = "Failed to add peer"
    /\ ~ConfMentions(conf, req[p].public_key)
    /\ req[q].op = "remove" /\ resp[q].detail = "Failed to remove peer"
    /\ ConfMentions(conf, device[q].public_key)

\* The allowed-ips a stored record stands for on the interface.
record_address(d, serial) ==
  ip_address_of(d.ip_state.network, d.devices[serial].ip_last_octet) \o "/32"

\* C13: after a /register whose wg command succeeded and whose wg0.conf append
\* failed has ended, its key is not left live without a registry record, and
\* no record of another key holds the address of that live peer.
C13_NoOrphanAfterConfFailure ==
  \A p \in Procs :
    (req[p].op = "register" /\ pc[p] = "idle" /\ err[p] = "OSError"
       /\ req[p].public_key \in DOMAIN live)
    => /\ ~KeyFree(data, req[p].public_key)
       /\ \A s \in DOMAIN data.devices :
            data.devices[s].public_key # req[p].public_key
            => record_address(data, s) # live[req[p].public_key]

\* C14: every /register whose add_peer failed is answered with the
\* server-side status and a detail that carries add_peer's own failure,
\* whatever the compensating remove_device did.
C14_OriginalFailureSurfaced ==
  \A p \in Procs :
    (req[p].op = "register" /\ pc[p] = "idle" /\ err[p] # "")
    => /\ resp[p].status = InterfaceFailureStatus
       /\ resp[p].detail = "Failed to add to WireGuard: " \o err[p]

\* The reservation of p's /register is written, add_peer has failed and the
\* compensating remove_device has not yet taken the lock.
ReservationPending(p) ==
  /\ req[p].op = "register"
  /\ pc[p] = "rb_lock_wait"
  /\ req[p].serial \in DOMAIN data.devices
  /\ data.devices[req[p].serial].public_key = req[p].public_key

\* C15: while the reservation of a failed /register awaits its compensating
\* removal, no other request's get_device finds that serial and no other
\* request's remove_device deletes it.
C15_ReservationInvisible ==
  [][\A p, q \in Procs :
       (p # q /\ ReservationPending(p) /\ req[q].serial = req[p].serial)
       => /\ (pc[q] = "get_locked" /\ pc'[q] # "get_locked")
             => pc'[q] = "idle" /\ resp'[q].status = 404
          /\ (pc[q] = "rm_locked" /\ pc'[q] # "rm_locked")
             => data' = data]_vars

\* The registry is about to reject p's /register: serial taken, key taken or
\* no address left.
RegisterRejected(p) ==
  \/ req[p].serial \in DOMAIN data.devices
  \/ ~KeyFree(data, req[p].public_key)
  \/ /\ data.ip_state.free_ips = <<>>
     /\ data.ip_state.next_ip > data.ip_state.max_ip

\* C16: a request the registry step rejects (register_device raising, or
\* get_device not finding the serial of a /remove) ends in that very step with
\* its error response; the step leaves the registry, the live peers and
\* wg0.conf as they were, so no wg command, no _modify_conf and no
\* compensating remove_device is run for it.
C16_RejectionEndsRequest ==
  [][\A p \in Procs :
       /\ (pc[p] = "reg_locked" /\ pc'[p] # "reg_locked" /\ RegisterRejected(p))
          => /\ pc'[p] = "idle"
             /\ resp'[p].detail \in RegistryRejections
             /\ data' = data /\ live' = live /\ conf' = conf
       /\ (pc[p] = "get_locked" /\ pc'[p] # "get_locked"
             /\ req[p].serial \notin DOMAIN data.devices)
          => /\ pc'[p] = "idle"
             /\ resp'[p] = Reply(404, "Device not found")
             /\ data' = data /\ live' = live /\ conf' = conf]_vars

\* A /register rejected for its key next to a /remove of an unknown serial,
\* both ended.
C16_Witness ==
  \E p, q \in Procs :
    /\ req[p].op = "register" /\ pc[p] = "idle"
    /\ resp[p].detail = "Public key already registered"
    /\ req[q].op = "remove" /\ pc[q] = "idle"
    /\ resp[q] = Reply(404, "Device not found")
    /\ req[q].serial \notin DOMAIN data.devices

HoldsRegistry(p) == reg_lock.ex = p \/ p \in reg_lock.sh
HoldsConf(p) == conf_lock = p

\* p waits in flock for a lock somebody else holds in a conflicting mode.
Blocked(p) ==
  \/ pc[p] \in RegistryExWait /\ reg_lock # NoLock
  \/ pc[p] \in RegistryShWait /\ reg_lock.ex # ""
  \/ pc[p] \in ConfWait /\ conf_lock # ""

\* The requests whose lock keeps p waiting.
Blockers(p) ==
  {q \in Procs \ {p} :
     \/ pc[p] \in RegistryExWait \cup RegistryShWait /\ HoldsRegistry(q)
     \/ pc[p] \in ConfWait /\ HoldsConf(q)}

\* C17: no request holds the devices.json lock and the wg0.conf lock together;
\* a request that is about to run or is running a wg command holds neither; a
\* lock is only ever held by a request inside the locked body, which waits
\* for nothing; so a request never waits for a lock because of a request whose
\* wg command is running, and the requests never all wait for one another.
C17_LocksNeverNested ==
  /\ \A p \in Procs : ~(HoldsRegistry(p) /\ HoldsConf(p))
  /\ \A p \in Procs :
       pc[p] \in WgCall \cup WgRunning => ~HoldsRegistry(p) /\ ~HoldsConf(p)
  /\ \A p \in Procs :
       /\ HoldsRegistry(p) => pc[p] \in RegistryExHeld \cup RegistryShHeld
       /\ HoldsConf(p) => pc[p] \in ConfHeld
  /\ \A p \in Procs :
       Blocked(p) => /\ Blockers(p) # {}
                     /\ \A q \in Blockers(p) :
                          pc[q] \notin WgRunning /\ ~Blocked(q)
  /\ (\E p \in Procs : pc[p] # "idle")
       => \E p \in Procs : pc[p] # "idle" /\ ~Blocked(p)

\* One request's wg command is running while another request holds the
\* devices.json lock exclusively.
C17_Witness ==
  \E p, q \in Procs :
    /\ pc[p] \in WgRunning
    /\ pc[q] \in RegistryExHeld /\ reg_lock.ex = q

\* The protocol state of p's request, in the handlers' order of calls.
phase(at, r) ==
  CASE at \in {"reg_lock_wait", "reg_locked"} -> "RegistryWriting"
    [] at \in {"wg_add_call", "wg_add_running", "conf_add_wait",
               "conf_add_locked"} -> "SyncApplying"
    [] at \in {"rb_lock_wait", "rb_locked"} -> "CompensatingRegistryRemove"
    [] at \in {"get_lock_wait", "get_locked"} -> "Lookup"
    [] at \in {"wg_rm_call", "wg_rm_running", "conf_rm_wait",
               "conf_rm_locked"} -> "SyncRemoving"
    [] at \in {"rm_lock_wait", "rm_locked"} -> "RegistryRemoving"
    [] at = "idle" -> IF r.status = 0 THEN "Idle"
                      ELSE IF r.status = 200 THEN "Done" ELSE "Failed"

Ended == {"Idle", "Done", "Failed"}

\* The moves of the two request state machines; a worker that has ended a
\* request may start the next one.
PhaseMoves ==
  ({"RegistryWriting"} \X {"SyncApplying", "Failed"})
  \cup ({"SyncApplying"} \X {"Done", "CompensatingRegistryRemove"})
  \cup ({"CompensatingRegistryRemove"} \X {"Failed"})
  \cup ({"Lookup"} \X {"SyncRemoving", "Failed"})
  \cup ({"SyncRemoving"} \X {"RegistryRemoving", "Failed"})
  \cup ({"RegistryRemoving"} \X {"Done", "Failed"})
  \cup (Ended \X {"RegistryWriting", "Lookup"})

\* C18: every /register moves RegistryWriting -> SyncApplying -> Done, or from
\* a failed apply through CompensatingRegistryRemove to Failed (a rejection in
\* RegistryWriting stops in Failed at once); every /remove moves Lookup ->
\* SyncRemoving -> RegistryRemoving -> Done or stops in Failed; a request
\* that has ended holds no lock; and, the handlers being scheduled fairly and
\* the wg commands returning, every request that arrived ends.
C18_RequestsFollowPathsAndEnd ==
  /\ [][\A p \in Procs :
          \/ phase(pc'[p], resp'[p]) = phase(pc[p], resp[p])
          \/ <<phase(pc[p], resp[p]), phase(pc'[p], resp'[p])>> \in PhaseMoves
       ]_vars
  /\ [](\A p \in Procs :
          pc[p] = "idle" => ~HoldsRegistry(p) /\ ~HoldsConf(p))
  /\ \A p \in Procs :
       (pc[p] # "idle")
         ~> (pc[p] = "idle" /\ resp[p].status # 0
               /\ ~HoldsRegistry(p) /\ ~HoldsConf(p))

\* One /register has ended Failed through the compensation while a /remove
\* has ended Done, and nobody holds a lock.
C18_Witness ==
  \E p, q \in Procs :
    /\ req[p].op = "register" /\ pc[p] = "idle" /\ err[p] # ""
    /\ phase(pc[p], resp[p]) = "Failed"
    /\ req[q].op = "remove" /\ phase(pc[q], resp[q]) = "Done"
    /\ reg_lock = NoLock /\ conf_lock = ""

\* C19: the compensating remove_device of a /register deletes nothing but
\* the record that this request's register_device wrote: the record it
\* deletes carries the request's own public key and the suffix it was given.
C19_CompensationDeletesOwnRecord ==
  [][\A p \in Procs :
       (pc[p] = "rb_locked" /\ pc'[p] = "idle" /\ data' # data)
       => /\ data.devices[req[p].serial].public_key = req[p].public_key
          /\ data.devices[req[p].serial].ip_last_octet
               = device[p].ip_last_octet]_vars

\* C20: start-up never overwrites a registry that holds a record: in every
\* step of two processes starting while a started one registers devices,
\* each stored record stays as it is and its suffix stays allocated.
C20_StartupKeepsRecords ==
  [][\A s \in DOMAIN data.devices :
       /\ s \in DOMAIN data'.devices
       /\ data'.devices[s] = data.devices[s]
       /\ data'.ip_state.next_ip > data.devices[s].ip_last_octet
       /\ FreeAt(data', data.devices[s].ip_last_octet) = {}]_vars

====
